---- MODULE Spec2Model ----
(***************************************************************************)
(* Model of the feathers-stripe adapter services:                          *)
(*   src/lib/services/transfer.js  (transfers service, StripeAdapter,      *)
(*                                  BaseService)                           *)
(*   src/lib/services/price.js     (prices service, orders service)        *)
(*                                                                         *)
(* Each group of operations has its own specification (SpecLimit,          *)
(* SpecClean, ...).  A specification drives only the variables of its own  *)
(* group; the variables of the other groups stay at their idle value.      *)
(***************************************************************************)
EXTENDS Integers, Sequences, FiniteSets

VARIABLES
    \* getLimit (transfer.js:112-125)
    options,        \* this.options of the adapter: its paginate policy
    limit,          \* argument `limit`
    paramsPaginate, \* argument `paramsPaginate`
    effective,      \* the value getLimit returned ([t |-> "pending"] before)
    \* cleanQuery (transfer.js:127-144)
    query,          \* argument `query`
    cleaned,        \* the value cleanQuery returned
    \* filterQuery, filterParams (transfer.js:146-162)
    params,         \* argument `params` of find: query, paginate, stripe
    filtered,       \* the value filterParams returned
    \* handlePaginate (transfer.js:164-188)
    pgArgs,         \* arguments: paginate, and the SDK call `stripeMethod`
    pgPc,           \* where the async function stands
    results,        \* the local array `results`
    pgResult,       \* the promise handlePaginate returned
    \* a call of a verb of a service (transfer.js:15-39, 67-110, 233-258;
    \* price.js:6-46, 62-74, 87-89)
    service,        \* the service called: its kind and the methods it defines
    entry,          \* the method of the service the caller calls
    invoked,        \* the internal or SDK method the call reached ("none" before)
    attached,       \* the handlers attached with .catch, innermost first
    remaining,      \* the attached handlers that have not run yet
    sdkPromise,     \* the promise of the invoked method
    callResult,     \* what the caller got: a promise, or a thrown error
    adPc,           \* where the call stands
    \* construction (transfer.js:6-13, 47-65; price.js:53-60)
    ctorClass,      \* the class constructed
    ctorOptions,    \* the options the caller passes
    optionsAfter,   \* the caller's options object once the constructor ran
    instance,       \* the instance, or the error the constructor threw
    \* the orders service's patch and update (price.js:76-89)
    ordCall,        \* the verb called, with its id and data
    sdkCalls,       \* the SDK calls issued so far, in order
    payPromise,     \* the promise of stripe.orders.pay
    payCaught,      \* the promise pay(...).catch(errorHandler) made, kept by nobody
    updatePromise,  \* the promise of stripe.orders.update
    ordResult,      \* the promise returned to the caller
    ordPc           \* where the call stands

limitVars == <<options, limit, paramsPaginate, effective>>
cleanVars == <<query, cleaned>>
filterVars == <<params, filtered>>
paginateVars == <<pgArgs, pgPc, results, pgResult>>
callVars == <<service, entry, invoked, attached, remaining, sdkPromise, callResult, adPc>>
ctorVars == <<ctorClass, ctorOptions, optionsAfter, instance>>
ordersVars == <<ordCall, sdkCalls, payPromise, payCaught, updatePromise, ordResult, ordPc>>

\* the variables of the other groups
otherLimitVars == <<cleanVars, filterVars, paginateVars, callVars, ctorVars, ordersVars>>
otherCleanVars == <<limitVars, filterVars, paginateVars, callVars, ctorVars, ordersVars>>
otherFilterVars == <<limitVars, cleanVars, paginateVars, callVars, ctorVars, ordersVars>>
otherPaginateVars == <<limitVars, cleanVars, filterVars, callVars, ctorVars, ordersVars>>
otherCallVars == <<limitVars, cleanVars, filterVars, paginateVars, ctorVars, ordersVars>>
otherCtorVars == <<limitVars, cleanVars, filterVars, paginateVars, callVars, ordersVars>>
otherOrdersVars == <<limitVars, cleanVars, filterVars, paginateVars, callVars, ctorVars>>

vars == <<limitVars, cleanVars, filterVars, paginateVars, callVars, ctorVars, ordersVars>>

----------------------------------------------------------------------------
(* Bounds of the model *)

\* Largest small number used for limits, defaults and maximums.
MaxLimit == 3
\* Largest number of entries of a top-level query mapping.
MaxKeys == 2
\* Largest number of items a page iteration yields.
MaxItems == 2

----------------------------------------------------------------------------
(* JavaScript values *)

Undef == [t |-> "undefined"]
Pending == [t |-> "pending"]
Bool(b) == [t |-> "boolean", b |-> b]
Num(n) == [t |-> "number", nan |-> FALSE, big |-> FALSE, n |-> n]
NaN == [t |-> "number", nan |-> TRUE, big |-> FALSE, n |-> 0]
\* Number.MAX_VALUE: larger than every number of the model
NumberMAX_VALUE == [t |-> "number", nan |-> FALSE, big |-> TRUE, n |-> 0]
\* the decimal string of n, such as "25" from a REST query string
Str(n) == [t |-> "string", n |-> n]

TypeOf(v) == v.t

\* a string given by its text, such as an error's type
Text(s) == [t |-> "string", s |-> s]

\* JavaScript truthiness (a decimal string is never empty, hence truthy)
Truthy(v) ==
    CASE v.t = "undefined" -> FALSE
      [] v.t = "boolean"   -> v.b
      [] v.t = "number"    -> ~v.nan /\ (v.big \/ v.n # 0)
      [] v.t = "string"    -> IF "s" \in DOMAIN v THEN v.s # "" ELSE TRUE
      [] OTHER             -> TRUE

\* a || b
Or(a, b) == IF Truthy(a) THEN a ELSE b

\* isNaN(v) for a v of type number
IsNaN(v) == v.nan

\* Math.min(a, b) on two values of type number
MathMin(a, b) ==
    IF a.nan \/ b.nan THEN NaN
    ELSE IF a.big THEN b
    ELSE IF b.big THEN a
    ELSE IF a.n <= b.n THEN a ELSE b

----------------------------------------------------------------------------
(* StripeAdapter.getLimit *)

\* { default: d, max: m }, the paginate option of a service
Policy(d, m) == [t |-> "object", default |-> d, max |-> m]

\* faulty variant: the clamp takes the larger of the two
GetLimitMax(opts, lim, pp) ==
    IF pp = Bool(FALSE) THEN lim
    ELSE LET paginate == opts.paginate IN
         IF Truthy(paginate) /\ (Truthy(paginate.default) \/ Truthy(paginate.max))
         THEN LET base == Or(paginate.default, Num(0))
                  lower == IF TypeOf(lim) = "number" /\ ~IsNaN(lim) THEN lim ELSE base
                  upper == IF TypeOf(paginate.max) = "number"
                           THEN paginate.max ELSE NumberMAX_VALUE
              IN IF MathMin(lower, upper) = lower THEN upper ELSE lower
         ELSE lim

getLimit(opts, lim, pp) ==
    IF pp = Bool(FALSE) THEN lim
    ELSE LET paginate == opts.paginate IN
         IF Truthy(paginate) /\ (Truthy(paginate.default) \/ Truthy(paginate.max))
         THEN LET base == Or(paginate.default, Num(0))
                  lower == IF TypeOf(lim) = "number" /\ ~IsNaN(lim) THEN lim ELSE base
                  upper == IF TypeOf(paginate.max) = "number"
                           THEN paginate.max ELSE NumberMAX_VALUE
              IN MathMin(lower, upper)
         ELSE lim

\* the numbers a policy may hold: small ones and Stripe's own 10 and 100
PolicyNumbers == (0..MaxLimit) \cup {10, 100}
PolicyValues == {Undef} \cup {Num(n) : n \in PolicyNumbers}
Policies == {Undef, Bool(FALSE)}
            \cup {Policy(d, m) : d \in PolicyValues, m \in PolicyValues}

\* the limits a caller may pass: none, NaN, numbers, decimal strings
LimitNumbers == (-1..MaxLimit) \cup {25, 500}
Limits == {Undef, NaN} \cup {Num(n) : n \in LimitNumbers}
          \cup {Str(n) : n \in LimitNumbers \ {-1}}

ParamsPaginate == {Undef, Bool(FALSE), Bool(TRUE)}

InitLimitVars ==
    /\ options \in {[paginate |-> p] : p \in Policies}
    /\ limit \in Limits
    /\ paramsPaginate \in ParamsPaginate
    /\ effective = Pending

IdleLimit ==
    /\ options = [paginate |-> Undef]
    /\ limit = Undef
    /\ paramsPaginate = Undef
    /\ effective = Pending

CallGetLimit ==
    /\ effective = Pending
    /\ effective' = getLimit(options, limit, paramsPaginate)
    /\ UNCHANGED <<options, limit, paramsPaginate>>
    /\ UNCHANGED otherLimitVars

----------------------------------------------------------------------------
(* JavaScript objects and arrays.  An object is the sequence of its         *)
(* entries in property order; a key is the sequence of its pieces, "$"      *)
(* being the reserved character and a name such as "limit" one piece.       *)

Obj(entries) == [t |-> "object", e |-> entries]
Arr(items) == [t |-> "array", a |-> items]
Entry(k, v) == [k |-> k, v |-> v]

IsArray(v) == v.t = "array"
\* _.isObject of @feathersjs/commons: an object that is no array and not null
IsObject(v) == v.t = "object"

KeysOf(entries) == {entries[i].k : i \in 1..Len(entries)}
Has(entries, key) == key \in KeysOf(entries)
Get(entries, key) ==
    LET i == CHOOSE i \in 1..Len(entries) : entries[i].k = key IN entries[i].v

\* delete obj[key]
Delete(entries, key) == SelectSeq(entries, LAMBDA e : e.k # key)

\* obj[key] = value: an existing property keeps its place, a new one is last
Set(entries, key, value) ==
    IF Has(entries, key)
    THEN [i \in 1..Len(entries) |->
            IF entries[i].k = key THEN Entry(key, value) ELSE entries[i]]
    ELSE Append(entries, Entry(key, value))

\* key.startsWith('$')
StartsWithDollar(key) == Len(key) > 0 /\ key[1] = "$"

\* key.replace('$', ''): the first "$" of the key is removed, no other
ReplaceDollar(key) ==
    IF \E i \in 1..Len(key) : key[i] = "$"
    THEN LET i == CHOOSE i \in 1..Len(key) :
                      key[i] = "$" /\ \A j \in 1..(i - 1) : key[j] # "$"
         IN SubSeq(key, 1, i - 1) \o SubSeq(key, i + 1, Len(key))
    ELSE key

----------------------------------------------------------------------------
(* StripeAdapter.cleanQuery *)

RECURSIVE cleanQuery(_)
RECURSIVE CleanEntries(_, _, _)

\* faulty variant: the prefixed key is kept beside the stripped one
CleanEntryKeep(result, key, value) ==
    LET cleanKey == IF StartsWithDollar(key) THEN ReplaceDollar(key) ELSE key
    IN Set(result, cleanKey, cleanQuery(value))

\* the body of the forEach callback, for one [key, value] of Object.entries
CleanEntry(result, key, value) ==
    LET strip == StartsWithDollar(key)
        afterDelete == IF strip THEN Delete(result, key) ELSE result
        cleanKey == IF strip THEN ReplaceDollar(key) ELSE key
    IN Set(afterDelete, cleanKey, cleanQuery(value))

\* Object.entries(result).forEach(...): the entries are listed once, before
\* the callback changes result
CleanEntries(result, entries, i) ==
    IF i > Len(entries) THEN result
    ELSE CleanEntries(CleanEntry(result, entries[i].k, entries[i].v), entries, i + 1)

cleanQuery(q) ==
    IF IsArray(q) THEN Arr([i \in 1..Len(q.a) |-> cleanQuery(q.a[i])])
    ELSE IF IsObject(q) THEN Obj(CleanEntries(q.e, q.e, 1))
    ELSE q

\* the sequences of at most n distinct keys of K
KeySeqs(K, n) ==
    {ks \in UNION {[1..m -> K] : m \in 0..n} :
        \A i, j \in 1..Len(ks) : i # j => ks[i] # ks[j]}

\* the objects of at most n entries with keys of K and values of V
Objects(K, V, n) ==
    UNION {{Obj([i \in 1..Len(ks) |-> Entry(ks[i], vs[i])]) :
                vs \in [1..Len(ks) -> V]} : ks \in KeySeqs(K, n)}

Scalars == {Num(1)}
InnerKeys == {<<"$", "gt">>, <<"gt">>}
InnerObjects ==
    {o \in Objects(InnerKeys, {Num(1), Num(2)}, 2) :
        \A i \in 1..Len(o.e) :
            o.e[i].v = IF StartsWithDollar(o.e[i].k) THEN Num(1) ELSE Num(2)}
InnerArrays == {Arr(<<o>>) : o \in {p \in InnerObjects : Len(p.e) = 1}}
QueryKeys == {<<"$", "limit">>, <<"limit">>, <<"$", "$", "limit">>,
              <<"status">>}
QueryValues == Scalars \cup InnerObjects \cup InnerArrays
Queries == Objects(QueryKeys, QueryValues, MaxKeys)

InitCleanVars ==
    /\ query \in Queries
    /\ cleaned = Pending

IdleClean ==
    /\ query = Undef
    /\ cleaned = Pending

CallCleanQuery ==
    /\ cleaned = Pending
    /\ cleaned' = cleanQuery(query)
    /\ UNCHANGED query
    /\ UNCHANGED otherCleanVars

----------------------------------------------------------------------------
(* StripeAdapter.filterQuery and filterParams *)

DollarLimit == <<"$", "limit">>
PlainLimit == <<"limit">>

\* obj[key], undefined when the object has no such property
Prop(entries, key) == IF Has(entries, key) THEN Get(entries, key) ELSE Undef

\* Object.assign({}, source): an undefined source adds nothing
AssignFrom(source) == IF source.t = "object" THEN source.e ELSE <<>>

\* faulty variant: the requested limit is forwarded without the clamp
FilterQueryNoClamp(opts, p) ==
    LET q == AssignFrom(p.query)
        lim == Or(Prop(q, DollarLimit), Prop(q, PlainLimit))
        clamped == IF Truthy(lim)
                   THEN Delete(Set(q, PlainLimit, lim), DollarLimit)
                   ELSE q
    IN cleanQuery(Obj(clamped))

filterQuery(opts, p) ==
    LET q == AssignFrom(p.query)
        lim == Or(Prop(q, DollarLimit), Prop(q, PlainLimit))
        clamped == IF Truthy(lim)
                   THEN Delete(Set(q, PlainLimit, getLimit(opts, lim, p.paginate)),
                               DollarLimit)
                   ELSE q
    IN cleanQuery(Obj(clamped))

\* filterParams (params = {}): undefined params are an empty object
filterParams(opts, given) ==
    LET p == IF given = Undef
             THEN [query |-> Undef, paginate |-> Undef, stripe |-> Undef]
             ELSE given
    IN [query |-> filterQuery(opts, p),
        stripe |-> p.stripe,
        paginate |-> Bool(p.paginate # Bool(FALSE))]

FilterPolicies ==
    {Undef} \cup {Policy(d, m) : d \in {Undef, Num(0), Num(10)},
                                 m \in {Undef, Num(0), Num(MaxLimit), Num(100)}}
FilterValues == {Num(0), Num(25), Num(500), Str(25),
                 Obj(<<Entry(<<"$", "gt">>, Num(1))>>)}
FilterQueries == {Undef} \cup Objects(QueryKeys, FilterValues, MaxKeys)

InitFilterVars ==
    /\ params \in {Undef} \cup {[query |-> q, paginate |-> pp, stripe |-> Undef] :
                                    q \in FilterQueries, pp \in ParamsPaginate}
    /\ filtered = Pending

IdleFilter ==
    /\ params = Undef
    /\ filtered = Pending

CallFilterParams ==
    /\ filtered = Pending
    /\ filtered' = filterParams(options, params)
    /\ UNCHANGED params
    /\ UNCHANGED otherFilterVars

----------------------------------------------------------------------------
(* Promises *)

PendingPromise == [state |-> "pending"]
Fulfilled(v) == [state |-> "fulfilled", value |-> v]
Rejected(e) == [state |-> "rejected", error |-> e]
\* no promise: the call threw before returning one
Thrown(e) == [state |-> "thrown", error |-> e]

----------------------------------------------------------------------------
(* StripeAdapter.handlePaginate *)

\* the list object a Stripe list call resolves to
ListObject(items) == [object |-> "list", data |-> items]
\* failures of the SDK seen by handlePaginate
SdkError == [type |-> "StripeAPIError"]
MethodNotAllowed == [name |-> "MethodNotAllowed",
                     message |-> "Cannot use paginate: false on this method"]

\* faulty variant: paginate: false is refused on every method
PaginateBranchRefuse(paginate, auto) ==
    IF paginate THEN "adopt" ELSE "throw"

\* the branch the function takes: return stripeMethod, iterate, or throw
PaginateBranch(paginate, auto) ==
    IF paginate THEN "adopt"
    ELSE IF auto THEN "iterate"
    ELSE "throw"

Items == {"it1", "it2", "it3"}
ItemSeqs == UNION {[1..n -> Items] : n \in 0..MaxItems}

InitPaginateVars ==
    /\ pgArgs \in [paginate : BOOLEAN, autoPagingEach : BOOLEAN, items : ItemSeqs]
    /\ pgPc = "start"
    /\ results = <<>>
    /\ pgResult = PendingPromise

IdlePaginate ==
    /\ pgArgs = Undef
    /\ pgPc = "idle"
    /\ results = <<>>
    /\ pgResult = PendingPromise

\* the synchronous part of the call, up to the first await or the return
CallHandlePaginate ==
    /\ pgPc = "start"
    /\ LET branch == PaginateBranch(pgArgs.paginate, pgArgs.autoPagingEach) IN
         /\ pgPc' = CASE branch = "adopt" -> "adopted"
                       [] branch = "iterate" -> "iterating"
                       [] OTHER -> "done"
         /\ pgResult' = IF branch = "throw" THEN Rejected(MethodNotAllowed)
                        ELSE PendingPromise
    /\ UNCHANGED <<pgArgs, results>>
    /\ UNCHANGED otherPaginateVars

\* return stripeMethod: the promise follows the SDK call, which fulfils
AdoptedFulfils ==
    /\ pgPc = "adopted"
    /\ pgPc' = "done"
    /\ pgResult' = Fulfilled(ListObject(pgArgs.items))
    /\ UNCHANGED <<pgArgs, results>>
    /\ UNCHANGED otherPaginateVars

\* return stripeMethod: the promise follows the SDK call, which fails
AdoptedRejects ==
    /\ pgPc = "adopted"
    /\ pgPc' = "done"
    /\ pgResult' = Rejected(SdkError)
    /\ UNCHANGED <<pgArgs, results>>
    /\ UNCHANGED otherPaginateVars

\* autoPagingEach hands the next item to the callback, which pushes it
IterationYields ==
    /\ pgPc = "iterating"
    /\ Len(results) < Len(pgArgs.items)
    /\ results' = Append(results, pgArgs.items[Len(results) + 1])
    /\ UNCHANGED <<pgArgs, pgPc, pgResult>>
    /\ UNCHANGED otherPaginateVars

\* autoPagingEach fails while fetching a page: the await throws
IterationFails ==
    /\ pgPc = "iterating"
    /\ pgPc' = "done"
    /\ pgResult' = Rejected(SdkError)
    /\ UNCHANGED <<pgArgs, results>>
    /\ UNCHANGED otherPaginateVars

\* autoPagingEach resolves after the last item: return Promise.resolve(results)
IterationEnds ==
    /\ pgPc = "iterating"
    /\ Len(results) = Len(pgArgs.items)
    /\ pgPc' = "done"
    /\ pgResult' = Fulfilled(results)
    /\ UNCHANGED <<pgArgs, results>>
    /\ UNCHANGED otherPaginateVars

----------------------------------------------------------------------------
(* StripeAdapter.handleError, and the errorHandler of the services that do  *)
(* not extend the adapter                                                   *)

\* an error of @feathersjs/errors: new errors.X(message, data)
FeathersError(name, message, data) ==
    [name |-> name, message |-> message, data |-> data]
NotImplemented(message) == [name |-> "NotImplemented", message |-> message]
\* calling a method the object does not have
TypeError(method) == [name |-> "TypeError", message |-> method]

UnknownGateway == Text("Unknown Payment Gateway Error")

\* faulty variant: the connection failure is filed under bad-request
ErrorClassSlip(type) ==
    CASE type = Text("StripeCardError")            -> "PaymentError"
      [] type = Text("StripeInvalidRequestError")  -> "BadRequest"
      [] type = Text("StripeInvalidRequest")       -> "BadRequest"
      [] type = Text("StripeAPIError")             -> "Unavailable"
      [] type = Text("StripeConnectionError")      -> "BadRequest"
      [] type = Text("StripeAuthenticationError")  -> "NotAuthenticated"
      [] type = Text("StripeRateLimitError")       -> "TooManyRequests"
      [] OTHER                                     -> "GeneralError"

\* the class handleError's switch picks for a truthy error.type
ErrorClass(type) ==
    CASE type = Text("StripeCardError")            -> "PaymentError"
      [] type = Text("StripeInvalidRequestError")  -> "BadRequest"
      [] type = Text("StripeInvalidRequest")       -> "BadRequest"
      [] type = Text("StripeAPIError")             -> "Unavailable"
      [] type = Text("StripeConnectionError")      -> "Unavailable"
      [] type = Text("StripeAuthenticationError")  -> "NotAuthenticated"
      [] type = Text("StripeRateLimitError")       -> "TooManyRequests"
      [] OTHER                                     -> "GeneralError"

\* the error handleError rejects with
Translate(error) ==
    IF Truthy(error.type)
    THEN LET class == ErrorClass(error.type) IN
         IF class = "GeneralError"
         THEN FeathersError(class, UnknownGateway, error)
         ELSE FeathersError(class, error, error)
    ELSE error

\* faulty variant: the translated error is returned as a fulfilled promise
HandleErrorResolves(error) ==
    IF error = Undef THEN Thrown(TypeError("type"))
    ELSE Fulfilled(Translate(error))

\* reading error.type of null or undefined throws a TypeError before any
\* promise is made
handleError(error) ==
    IF error = Undef THEN Thrown(TypeError("type"))
    ELSE Rejected(Translate(error))

\* ../error-handler, required by the transfers, prices and orders services
errorHandler(error) ==
    LET class == IF error # Undef /\ Truthy(error.type)
                 THEN ErrorClass(error.type) ELSE "GeneralError" IN
    IF class = "GeneralError"
    THEN Rejected(FeathersError(class, UnknownGateway, error))
    ELSE Rejected(FeathersError(class, error, error))

KnownTypes == {"StripeCardError", "StripeInvalidRequestError", "StripeInvalidRequest",
               "StripeAPIError", "StripeConnectionError",
               "StripeAuthenticationError", "StripeRateLimitError"}
\* the errors an SDK call may reject with: the known types, a type the switch
\* does not list, an empty type, and an error without type
SdkErrors == {[type |-> Text(ty)] : ty \in KnownTypes \cup {"StripeIdempotencyError", ""}}
             \cup {[type |-> Undef]}
\* what a promise may reject with: an error of the SDK, or no value at all
\* (Promise.reject(), throw undefined)
Rejections == SdkErrors \cup {Undef}

----------------------------------------------------------------------------
(* The verbs of the services *)

Verbs == {"find", "get", "create", "update", "patch", "remove"}
Internal(verb) == "_" \o verb
Dollar(verb) == "$" \o verb
InternalMethods == {Internal(v) : v \in Verbs}

\* what the synchronous part of a call does: it throws, or it invokes a
\* method and attaches handlers to the promise the method returns
Throws(error) == [threw |-> TRUE, error |-> error]
Invokes(method, handlers) == [threw |-> FALSE, method |-> method, handlers |-> handlers]

NotImplementedMessage(verb) ==
    CASE verb = "find"   -> "Find method not implemented"
      [] verb = "get"    -> "Get method not implemented"
      [] verb = "create" -> "Create method not implemented"
      [] verb = "update" -> "Update method not implemented"
      [] verb = "patch"  -> "Patch method not implemented"
      [] verb = "remove" -> "Remove method not implemented"

\* StripeAdapter.$find, $get, $create, $update, $remove
DollarVerb(defined, verb) ==
    IF Internal(verb) \notin defined
    THEN Throws(NotImplemented(NotImplementedMessage(verb)))
    ELSE Invokes(Internal(verb), <<"handleError">>)

\* StripeAdapter.$patch
DollarPatch(defined) ==
    IF "_patch" \in defined THEN Invokes("_patch", <<"handleError">>)
    ELSE IF "_update" \in defined THEN Invokes("_update", <<"handleError">>)
    ELSE Throws(NotImplemented(NotImplementedMessage("patch")))

\* BaseService.find, get, create, update, patch, remove: this._verb(...)
PublicVerb(defined, verb) ==
    IF Internal(verb) \notin defined
    THEN Throws(TypeError(Internal(verb)))
    ELSE Invokes(Internal(verb), <<>>)

\* the transfers service (transfer.js:15-39); patch is update
TransfersVerb(verb) ==
    Invokes(CASE verb = "find"   -> "stripe.transfers.list"
              [] verb = "get"    -> "stripe.transfers.retrieve"
              [] verb = "create" -> "stripe.transfers.create"
              [] verb = "patch"  -> "stripe.transfers.update"
              [] verb = "update" -> "stripe.transfers.update"
              [] verb = "remove" -> "stripe.transfers.createReversal",
            <<"errorHandler">>)

\* the prices service (price.js:6-46); each verb goes through its internal
\* method, and _patch is _update
PricesVerb(verb) ==
    Invokes(CASE verb = "find"   -> "stripe.prices.list"
              [] verb = "get"    -> "stripe.prices.retrieve"
              [] verb = "create" -> "stripe.prices.create"
              [] verb = "patch"  -> "stripe.prices.update"
              [] verb = "update" -> "stripe.prices.update",
            <<"errorHandler">>)

\* the orders service without its patch (price.js:62-74, 87-89)
OrdersVerb(verb) ==
    Invokes(CASE verb = "find"   -> "stripe.orders.list"
              [] verb = "get"    -> "stripe.orders.retrieve"
              [] verb = "create" -> "stripe.orders.create"
              [] verb = "update" -> "stripe.orders.update",
            <<"errorHandler">>)

IsDollar(e) == e \in {Dollar(v) : v \in Verbs}
VerbOf(e) == CHOOSE v \in Verbs : e \in {v, Dollar(v)}

Dispatch(svc, e) ==
    CASE svc.kind = "transfers" -> TransfersVerb(e)
      [] svc.kind = "prices"    -> PricesVerb(e)
      [] svc.kind = "orders"    -> OrdersVerb(e)
      [] svc.kind = "adapter" /\ e = "$patch" -> DollarPatch(svc.defined)
      [] svc.kind = "adapter" /\ IsDollar(e) /\ e # "$patch" ->
            DollarVerb(svc.defined, VerbOf(e))
      [] OTHER -> PublicVerb(svc.defined, e)

\* the services: the three of the repository, and the adapters with every
\* choice of internal methods
Services ==
    {[kind |-> k, defined |-> {}] : k \in {"transfers", "prices", "orders"}}
    \cup {[kind |-> "adapter", defined |-> d] : d \in SUBSET InternalMethods}

EntriesOf(svc) ==
    CASE svc.kind = "transfers" -> Verbs
      [] svc.kind = "prices"    -> Verbs \ {"remove"}
      [] svc.kind = "orders"    -> {"find", "get", "create", "update"}
      [] OTHER                  -> Verbs \cup {Dollar(v) : v \in Verbs}

InitCallVars ==
    /\ service \in Services
    /\ entry \in EntriesOf(service)
    /\ invoked = "none"
    /\ attached = <<>>
    /\ remaining = <<>>
    /\ sdkPromise = PendingPromise
    /\ callResult = PendingPromise
    /\ adPc = "start"

IdleCall ==
    /\ service = Undef
    /\ entry = "none"
    /\ invoked = "none"
    /\ attached = <<>>
    /\ remaining = <<>>
    /\ sdkPromise = PendingPromise
    /\ callResult = PendingPromise
    /\ adPc = "idle"

\* the synchronous part of the call
CallVerb ==
    /\ adPc = "start"
    /\ LET d == Dispatch(service, entry) IN
         IF d.threw
         THEN /\ callResult' = Thrown(d.error)
              /\ adPc' = "done"
              /\ UNCHANGED <<invoked, attached, remaining>>
         ELSE /\ invoked' = d.method
              /\ attached' = d.handlers
              /\ remaining' = d.handlers
              /\ adPc' = "waiting"
              /\ UNCHANGED callResult
    /\ UNCHANGED <<service, entry, sdkPromise>>
    /\ UNCHANGED otherCallVars

\* the invoked method's promise fulfils
MethodFulfils ==
    /\ adPc = "waiting"
    /\ sdkPromise' = Fulfilled(invoked)
    /\ adPc' = "settling"
    /\ UNCHANGED <<service, entry, invoked, attached, remaining, callResult>>
    /\ UNCHANGED otherCallVars

\* the invoked method's promise rejects
MethodRejects ==
    /\ adPc = "waiting"
    /\ \E e \in Rejections : sdkPromise' = Rejected(e)
    /\ adPc' = "settling"
    /\ UNCHANGED <<service, entry, invoked, attached, remaining, callResult>>
    /\ UNCHANGED otherCallVars

\* the promise the next .catch made settles: a rejection runs the handler
\* and takes the handler's promise (a handler that throws rejects it with
\* what was thrown), a fulfilment passes through
Handle(h, promise) ==
    IF promise.state = "rejected"
    THEN LET returned == IF h = "handleError" THEN handleError(promise.error)
                         ELSE errorHandler(promise.error)
         IN IF returned.state = "thrown" THEN Rejected(returned.error)
            ELSE returned
    ELSE promise

\* the chain of .catch promises settles, one after the other
RECURSIVE Chain(_, _)
Chain(hs, promise) ==
    IF hs = <<>> THEN promise ELSE Chain(Tail(hs), Handle(Head(hs), promise))

\* the promise the caller holds settles once its chain has
CallSettles ==
    /\ adPc = "settling"
    /\ callResult' = Chain(remaining, sdkPromise)
    /\ remaining' = <<>>
    /\ adPc' = "done"
    /\ UNCHANGED <<service, entry, invoked, attached, sdkPromise>>
    /\ UNCHANGED otherCallVars

----------------------------------------------------------------------------
(* Construction *)

\* a property the options object does not have
Absent == [t |-> "absent"]
\* options.name, undefined when the options have no such property
Option(opts, name) == IF opts[name] = Absent THEN Undef ELSE opts[name]

\* Stripe's page size, the default of the adapter
DefaultPageSize == 10
\* Stripe's largest page size, the maximum of the adapter
MaxPageSize == 100

ConfigError(message) == [name |-> "Error", message |-> message]
\* Stripe(secretKey), the client the SDK makes of a key
StripeClient(key) == [client |-> "Stripe", key |-> key]
\* a client the caller made
GivenClient == [t |-> "object", client |-> "given"]

Constructed(stripe, paginate) ==
    [state |-> "constructed", stripe |-> stripe, paginate |-> paginate]

\* new StripeAdapter(options), new BaseService(options): this.options.paginate
\* is opts.paginate, which a paginate property of the options replaces
NewAdapter(opts) ==
    LET paginate == IF opts.paginate = Absent
                    THEN Policy(Num(DefaultPageSize), Num(MaxPageSize))
                    ELSE opts.paginate
    IN IF ~Truthy(Option(opts, "secretKey")) /\ ~Truthy(Option(opts, "stripe"))
       THEN [state |-> "thrown",
             error |-> ConfigError("Stripe service option secretKey or stripe needs to be provided")]
       ELSE IF Truthy(Option(opts, "stripe"))
       THEN Constructed(opts.stripe, paginate)
       ELSE Constructed(StripeClient(opts.secretKey), paginate)

\* new Service(options) of the transfers and of the orders service
NewLegacy(opts) ==
    IF ~Truthy(Option(opts, "secretKey"))
    THEN [state |-> "thrown",
          error |-> ConfigError("Stripe secretKey needs to be provided")]
    ELSE Constructed(StripeClient(opts.secretKey), Policy(Undef, Undef))

\* the options object after the constructor ran: options.paginate = {}
LegacyOptionsAfter(opts) ==
    IF ~Truthy(Option(opts, "secretKey")) THEN opts
    ELSE [opts EXCEPT !.paginate = Policy(Undef, Undef)]

CtorOptions ==
    [secretKey : {Absent, Text(""), Text("sk_test")},
     stripe : {Absent, GivenClient},
     paginate : {Absent, Bool(FALSE)}
                \cup {Policy(d, m) : d \in {Undef, Num(MaxLimit)},
                                     m \in {Undef, Num(MaxLimit + 1)}}]

InitCtorVars ==
    /\ ctorClass \in {"StripeAdapter", "BaseService", "transfers", "orders"}
    /\ ctorOptions \in CtorOptions
    /\ optionsAfter = Pending
    /\ instance = Pending

IdleCtor ==
    /\ ctorClass = "none"
    /\ ctorOptions = Undef
    /\ optionsAfter = Pending
    /\ instance = Pending

ConstructAdapter ==
    /\ instance = Pending
    /\ ctorClass \in {"StripeAdapter", "BaseService"}
    /\ instance' = NewAdapter(ctorOptions)
    /\ optionsAfter' = ctorOptions
    /\ UNCHANGED <<ctorClass, ctorOptions>>
    /\ UNCHANGED otherCtorVars

ConstructLegacy ==
    /\ instance = Pending
    /\ ctorClass \in {"transfers", "orders"}
    /\ instance' = NewLegacy(ctorOptions)
    /\ optionsAfter' = LegacyOptionsAfter(ctorOptions)
    /\ UNCHANGED <<ctorClass, ctorOptions>>
    /\ UNCHANGED otherCtorVars

----------------------------------------------------------------------------
(* The orders service: patch and update *)

PayKey == <<"pay">>
SdkCall(method, id, payload) == [method |-> method, id |-> id, payload |-> payload]

\* the SDK calls Service.update(id, data) issues
OrdersUpdateCalls(id, data) == <<SdkCall("stripe.orders.update", id, data)>>

\* faulty variant: the pay call gets the data as it came, flag included
OrdersPayCallsKeepFlag(id, data) ==
    IF Truthy(Prop(data.e, PayKey))
    THEN <<SdkCall("stripe.orders.pay", id, data)>>
    ELSE <<>>

\* the SDK calls Service.patch(id, data) issues before it calls update
OrdersPayCalls(id, data) ==
    IF Truthy(Prop(data.e, PayKey))
    THEN <<SdkCall("stripe.orders.pay", id, Obj(Delete(data.e, PayKey)))>>
    ELSE <<>>

\* faulty variant: the caller gets the update's result only if the pay call succeeded
OrdersResultLinked(pay, update) ==
    IF pay.state = "rejected"
    THEN Handle("errorHandler", pay)
    ELSE Handle("errorHandler", update)

\* the promise patch and update return, settled: the promise of
\* update(...).catch(errorHandler); the promise of the pay call is no part
\* of it
OrdersResult(pay, update) == Handle("errorHandler", update)

OrderIds == {"or_1", "or_2"}
OrderData ==
    {d \in Objects({PayKey, <<"amount">>}, {Bool(TRUE), Bool(FALSE), Num(500)}, 2) :
        \A i \in 1..Len(d.e) :
            (d.e[i].k = PayKey) <=> (d.e[i].v \in {Bool(TRUE), Bool(FALSE)})}
OrderErrors == {[type |-> Text("StripeCardError")], [type |-> Undef]}

NoPromise == [state |-> "none"]

InitOrdersVars ==
    /\ ordCall \in [verb : {"patch", "update"}, id : OrderIds, data : OrderData]
    /\ sdkCalls = <<>>
    /\ payPromise = NoPromise
    /\ payCaught = NoPromise
    /\ updatePromise = NoPromise
    /\ ordResult = NoPromise
    /\ ordPc = "start"

IdleOrders ==
    /\ ordCall = Undef
    /\ sdkCalls = <<>>
    /\ payPromise = NoPromise
    /\ payCaught = NoPromise
    /\ updatePromise = NoPromise
    /\ ordResult = NoPromise
    /\ ordPc = "idle"

\* Service.patch(id, data), up to its return: the pay call, if any, then
\* this.update(id, data)
OrdersPatch ==
    /\ ordPc = "start"
    /\ ordCall.verb = "patch"
    /\ LET pay == OrdersPayCalls(ordCall.id, ordCall.data) IN
         /\ sdkCalls' = pay \o OrdersUpdateCalls(ordCall.id, ordCall.data)
         /\ payPromise' = IF pay = <<>> THEN NoPromise ELSE PendingPromise
         /\ payCaught' = IF pay = <<>> THEN NoPromise ELSE PendingPromise
    /\ updatePromise' = PendingPromise
    /\ ordResult' = PendingPromise
    /\ ordPc' = "returned"
    /\ UNCHANGED ordCall
    /\ UNCHANGED otherOrdersVars

\* Service.update(id, data), up to its return
OrdersUpdate ==
    /\ ordPc = "start"
    /\ ordCall.verb = "update"
    /\ sdkCalls' = OrdersUpdateCalls(ordCall.id, ordCall.data)
    /\ updatePromise' = PendingPromise
    /\ ordResult' = PendingPromise
    /\ ordPc' = "returned"
    /\ UNCHANGED <<ordCall, payPromise, payCaught>>
    /\ UNCHANGED otherOrdersVars

\* the pay call completes, either way
PaySettles ==
    /\ payPromise = PendingPromise
    /\ \/ payPromise' = Fulfilled("stripe.orders.pay")
       \/ \E e \in OrderErrors : payPromise' = Rejected(e)
    /\ UNCHANGED <<ordCall, sdkCalls, payCaught, updatePromise, ordResult, ordPc>>
    /\ UNCHANGED otherOrdersVars

\* the .catch(errorHandler) on the pay call runs; nobody holds its promise
PayCaughtSettles ==
    /\ payPromise.state \in {"fulfilled", "rejected"}
    /\ payCaught = PendingPromise
    /\ payCaught' = Handle("errorHandler", payPromise)
    /\ UNCHANGED <<ordCall, sdkCalls, payPromise, updatePromise, ordResult, ordPc>>
    /\ UNCHANGED otherOrdersVars

\* the update call completes, either way
UpdateSettles ==
    /\ updatePromise = PendingPromise
    /\ \/ updatePromise' = Fulfilled("stripe.orders.update")
       \/ \E e \in OrderErrors : updatePromise' = Rejected(e)
    /\ UNCHANGED <<ordCall, sdkCalls, payPromise, payCaught, ordResult, ordPc>>
    /\ UNCHANGED otherOrdersVars

\* the promise the caller holds settles
ResultSettles ==
    /\ updatePromise.state \in {"fulfilled", "rejected"}
    /\ ordResult = PendingPromise
    /\ ordResult' = OrdersResult(payPromise, updatePromise)
    /\ ordPc' = "done"
    /\ UNCHANGED <<ordCall, sdkCalls, payPromise, payCaught, updatePromise>>
    /\ UNCHANGED otherOrdersVars

----------------------------------------------------------------------------
(* Specifications *)

\* getLimit on every limit, policy and paginate parameter
InitLimit ==
    /\ InitLimitVars
    /\ IdleClean /\ IdleFilter /\ IdlePaginate /\ IdleCall /\ IdleCtor /\ IdleOrders
NextLimit == CallGetLimit
SpecLimit == InitLimit /\ [][NextLimit]_vars

\* cleanQuery on every query
InitClean ==
    /\ InitCleanVars
    /\ IdleLimit /\ IdleFilter /\ IdlePaginate /\ IdleCall /\ IdleCtor /\ IdleOrders
NextClean == CallCleanQuery
SpecClean == InitClean /\ [][NextClean]_vars

\* filterParams, which reads the options of the service and the params of
\* the call
InitFilter ==
    /\ InitFilterVars
    /\ options \in {[paginate |-> p] : p \in FilterPolicies}
    /\ limit = Undef /\ paramsPaginate = Undef /\ effective = Pending
    /\ IdleClean /\ IdlePaginate /\ IdleCall /\ IdleCtor /\ IdleOrders
NextFilter == CallFilterParams
SpecFilter == InitFilter /\ [][NextFilter]_vars

\* a call of handlePaginate
InitPaginate ==
    /\ InitPaginateVars
    /\ IdleLimit /\ IdleClean /\ IdleFilter /\ IdleCall /\ IdleCtor /\ IdleOrders
NextPaginate ==
    \/ CallHandlePaginate
    \/ AdoptedFulfils
    \/ AdoptedRejects
    \/ IterationYields
    \/ IterationFails
    \/ IterationEnds
SpecPaginate == InitPaginate /\ [][NextPaginate]_vars

\* a call of a verb of a service
InitCall ==
    /\ InitCallVars
    /\ IdleLimit /\ IdleClean /\ IdleFilter /\ IdlePaginate /\ IdleCtor /\ IdleOrders
NextCall ==
    \/ CallVerb
    \/ MethodFulfils
    \/ MethodRejects
    \/ CallSettles
SpecCall == InitCall /\ [][NextCall]_vars

\* the construction of a service
InitCtor ==
    /\ InitCtorVars
    /\ IdleLimit /\ IdleClean /\ IdleFilter /\ IdlePaginate /\ IdleCall /\ IdleOrders
NextCtor ==
    \/ ConstructAdapter
    \/ ConstructLegacy
SpecCtor == InitCtor /\ [][NextCtor]_vars

\* a call of patch or update of the orders service
InitOrders ==
    /\ InitOrdersVars
    /\ IdleLimit /\ IdleClean /\ IdleFilter /\ IdlePaginate /\ IdleCall /\ IdleCtor
NextOrders ==
    \/ OrdersPatch
    \/ OrdersUpdate
    \/ PaySettles
    \/ PayCaughtSettles
    \/ UpdateSettles
    \/ ResultSettles
SpecOrders == InitOrders /\ [][NextOrders]_vars

\* the whole module: any one of the above
Init ==
    \/ InitLimit
    \/ InitClean
    \/ InitFilter
    \/ InitPaginate
    \/ InitCall
    \/ InitCtor
    \/ InitOrders
Next ==
    \/ NextLimit
    \/ NextClean
    \/ NextFilter
    \/ NextPaginate
    \/ NextCall
    \/ NextCtor
    \/ NextOrders
Spec == Init /\ [][Next]_vars

----------------------------------------------------------------------------
(* Claims about getLimit, checked under SpecLimit *)

Min(a, b) == IF a <= b THEN a ELSE b

\* the policy holds a number as default and a number as max
FullPolicy(p) ==
    /\ p.t = "object"
    /\ p.default.t = "number"
    /\ p.max.t = "number"

\* C1 as stated: for every requested limit L and every policy (default D,
\* max M) the effective limit is min(L or D, M), D standing in when no limit
\* is requested; with paginate === false the effective limit is L unchanged.
C1_Original ==
    (effective # Pending /\ FullPolicy(options.paginate) /\ limit # NaN) =>
        IF paramsPaginate = Bool(FALSE) THEN effective = limit
        ELSE LET D == options.paginate.default.n
                 M == options.paginate.max.n
                 LorD == IF limit = Undef THEN D ELSE limit.n
             IN effective = Num(Min(LorD, M))

\* C1 amended: with paginate === false, or with a policy that has neither a
\* non-zero default nor a non-zero max (or no policy at all), the limit is
\* returned unchanged; otherwise the effective limit is min(L', M), where L'
\* is L when L is a number other than NaN and else the default (0 when there
\* is none), and where a missing max does not bound it.
C1_GetLimit ==
    effective # Pending =>
        LET p == options.paginate
            nonZero(v) == v.t = "number" /\ v.n # 0
            configured == p.t = "object" /\ (nonZero(p.default) \/ nonZero(p.max))
        IN IF paramsPaginate = Bool(FALSE) \/ ~configured THEN effective = limit
           ELSE LET L1 == IF limit.t = "number" /\ limit # NaN THEN limit.n
                          ELSE IF p.default.t = "number" THEN p.default.n ELSE 0
                IN effective = IF p.max.t = "number" THEN Num(Min(L1, p.max.n))
                               ELSE Num(L1)

\* a requested limit of 500 under the policy (10, 100) has been clamped to 100
C1_Witness ==
    /\ options.paginate = Policy(Num(10), Num(100))
    /\ limit = Num(500)
    /\ paramsPaginate = Undef
    /\ effective = Num(100)

----------------------------------------------------------------------------
(* Claims about cleanQuery, checked under SpecClean *)

StripKey(key) == IF key # <<>> /\ Head(key) = "$" THEN Tail(key) ELSE key

\* out is what the claim wants of the normalization of in: a list is
\* normalized item by item; in a mapping each prefixed key is gone, its
\* stripped key holds the normalized value, and a value under a key without
\* prefix is normalized in place (a scalar stays as it is)
RECURSIVE Normalized(_, _)
Normalized(in, out) ==
    IF in.t = "array"
    THEN /\ out.t = "array"
         /\ Len(out.a) = Len(in.a)
         /\ \A i \in 1..Len(in.a) : Normalized(in.a[i], out.a[i])
    ELSE IF in.t = "object"
    THEN /\ out.t = "object"
         /\ \A i \in 1..Len(in.e) :
               LET k == in.e[i].k IN
               /\ Has(out.e, StripKey(k))
               /\ Normalized(in.e[i].v, Get(out.e, StripKey(k)))
               /\ (k # StripKey(k)) => ~Has(out.e, k)
    ELSE out = in

\* no stripped key of a mapping is another key of that mapping, at any depth
RECURSIVE CollisionFree(_)
CollisionFree(q) ==
    IF q.t = "array" THEN \A i \in 1..Len(q.a) : CollisionFree(q.a[i])
    ELSE IF q.t = "object"
    THEN /\ \A i, j \in 1..Len(q.e) : i # j => StripKey(q.e[i].k) # q.e[j].k
         /\ \A i \in 1..Len(q.e) : CollisionFree(q.e[i].v)
    ELSE TRUE

\* C2 as stated: in every mapping, nested ones included, each key with the
\* reserved prefix is in the output without the prefix and with its value
\* normalized, the prefixed key is absent, and scalars under other keys are
\* unchanged, also when a prefixed key and its counterpart are both present.
C2_Original == cleaned # Pending => Normalized(query, cleaned)

\* C2 amended: the same, for every query in which no mapping holds a key
\* whose stripped form is another key of that mapping; when a mapping holds
\* both "$name" and "name" ("name" without prefix of its own), the output
\* holds "name" with the normalized value of whichever of the two entries
\* comes later in the mapping (that value being free of such collisions
\* itself).
C2_CleanQuery ==
    cleaned # Pending =>
        /\ CollisionFree(query) => Normalized(query, cleaned)
        /\ \A i, j \in 1..Len(query.e) :
              (/\ i < j
               /\ ~StartsWithDollar(StripKey(query.e[i].k))
               /\ StripKey(query.e[i].k) = StripKey(query.e[j].k)
               /\ CollisionFree(query.e[j].v))
              => /\ Has(cleaned.e, StripKey(query.e[j].k))
                 /\ Normalized(query.e[j].v, Get(cleaned.e, StripKey(query.e[j].k)))

\* a query with a prefixed key over a list of mappings with a prefixed key
\* has been normalized at both levels
C2_Witness ==
    /\ query = Obj(<<Entry(<<"$", "limit">>, Arr(<<Obj(<<Entry(<<"$", "gt">>, Num(1))>>)>>)),
                     Entry(<<"status">>, Num(1))>>)
    /\ cleaned = Obj(<<Entry(<<"status">>, Num(1)),
                       Entry(<<"limit">>, Arr(<<Obj(<<Entry(<<"gt">>, Num(1))>>)>>))>>)

----------------------------------------------------------------------------
(* Claims about filterQuery, checked under SpecFilter *)

\* pagination is not disabled for the call and the policy holds a maximum
HasMaximum ==
    /\ params.paginate # Bool(FALSE)
    /\ options.paginate.t = "object"
    /\ options.paginate.max.t = "number"

\* C5 as stated: when the query carries a requested limit (under `$limit`,
\* else under `limit`), the forwarded query holds that limit under `limit`
\* clamped by getLimit, holds no `$limit`, and holds every other key without
\* prefix with its value unchanged; with pagination not disabled the
\* forwarded limit never exceeds the configured maximum.
C5_Original ==
    (/\ filtered # Pending
     /\ params # Undef
     /\ params.query.t = "object"
     /\ (Has(params.query.e, DollarLimit) \/ Has(params.query.e, PlainLimit))) =>
        LET in == params.query.e
            out == filtered.query.e
            L == IF Has(in, DollarLimit) THEN Get(in, DollarLimit) ELSE Get(in, PlainLimit)
        IN /\ Has(out, PlainLimit)
           /\ Get(out, PlainLimit) = getLimit(options, L, params.paginate)
           /\ ~Has(out, DollarLimit)
           /\ \A i \in 1..Len(in) :
                 (~StartsWithDollar(in[i].k) /\ in[i].k # PlainLimit) =>
                     Has(out, in[i].k) /\ Get(out, in[i].k) = in[i].v
           /\ HasMaximum => /\ Get(out, PlainLimit).t = "number"
                             /\ Get(out, PlainLimit).n <= options.paginate.max.n

\* C5 amended: the requested limit is `$limit` when that is truthy and else
\* `limit`; when it is truthy the forwarded query holds it under `limit`
\* clamped by getLimit (and normalized, should it be a mapping), and when the query holds a limit key at all the
\* forwarded query holds `limit`.  The forwarded query holds no `$limit`
\* unless the query holds `$$limit`.  Every other key without prefix is
\* forwarded with its value normalized (a scalar unchanged) unless the query
\* holds the same key with the prefix.  With pagination not disabled and a
\* policy whose default or max is non-zero, a forwarded numeric limit never
\* exceeds a numeric max.
C5_FilterQuery ==
    (/\ filtered # Pending
     /\ params # Undef
     /\ params.query.t = "object"
     /\ (Has(params.query.e, DollarLimit) \/ Has(params.query.e, PlainLimit))) =>
        LET in == params.query.e
            out == filtered.query.e
            dl == Prop(in, DollarLimit)
            L == IF Truthy(dl) THEN dl ELSE Prop(in, PlainLimit)
            p == options.paginate
            nonZero(v) == v.t = "number" /\ v.n # 0
        IN /\ Has(out, PlainLimit)
           /\ Truthy(L) => Normalized(getLimit(options, L, params.paginate),
                                       Get(out, PlainLimit))
           /\ ~Has(in, <<"$", "$", "limit">>) => ~Has(out, DollarLimit)
           /\ \A i \in 1..Len(in) :
                 (/\ ~StartsWithDollar(in[i].k)
                  /\ in[i].k # PlainLimit
                  /\ ~Has(in, <<"$">> \o in[i].k)) =>
                     /\ Has(out, in[i].k)
                     /\ Normalized(in[i].v, Get(out, in[i].k))
           /\ (HasMaximum /\ (nonZero(p.default) \/ nonZero(p.max))
                /\ Get(out, PlainLimit).t = "number" /\ Truthy(L)) =>
                 Get(out, PlainLimit).n <= p.max.n

\* the query { $limit: 25, status: "25" } under the policy (10, 100) has been
\* forwarded as { status: "25", limit: 25 }
C5_Witness ==
    /\ filtered # Pending
    /\ params # Undef
    /\ options.paginate = Policy(Num(10), Num(100))
    /\ params.query = Obj(<<Entry(DollarLimit, Num(25)), Entry(<<"status">>, Str(25))>>)
    /\ params.paginate = Undef
    /\ filtered.query = Obj(<<Entry(<<"status">>, Str(25)), Entry(PlainLimit, Num(25))>>)

----------------------------------------------------------------------------
(* Claims about handlePaginate, checked under SpecPaginate *)

\* C6: the call is rejected with method-not-allowed exactly when pagination
\* is disabled and the SDK call has no autoPagingEach; with pagination
\* enabled the result is the SDK call's own result; with pagination disabled
\* on an iterable call the result is the list of every item the iteration
\* yields, in iteration order (or the iteration's own failure).
C6_HandlePaginate ==
    /\ pgResult.state \in {"pending", "fulfilled", "rejected"}
    /\ (pgResult.state = "rejected" /\ pgResult.error = MethodNotAllowed)
          <=> (pgPc = "done" /\ ~pgArgs.paginate /\ ~pgArgs.autoPagingEach)
    /\ (pgPc = "done" /\ pgArgs.paginate) =>
          pgResult \in {Fulfilled(ListObject(pgArgs.items)), Rejected(SdkError)}
    /\ (pgPc = "done" /\ ~pgArgs.paginate /\ pgArgs.autoPagingEach) =>
          pgResult \in {Fulfilled(pgArgs.items), Rejected(SdkError)}
    /\ (pgPc = "done" /\ pgResult.state = "fulfilled" /\ ~pgArgs.paginate) =>
          /\ results = pgArgs.items
          /\ pgResult.value = results

\* pagination disabled on an iterable call: both items came back in order
C6_Witness ==
    /\ pgPc = "done"
    /\ ~pgArgs.paginate /\ pgArgs.autoPagingEach
    /\ pgArgs.items = <<"it2", "it1">>
    /\ pgResult = Fulfilled(<<"it2", "it1">>)

\* pagination disabled on a call without autoPagingEach: method-not-allowed
C6_WitnessRefused ==
    /\ pgPc = "done"
    /\ ~pgArgs.paginate /\ ~pgArgs.autoPagingEach
    /\ pgResult = Rejected(MethodNotAllowed)

----------------------------------------------------------------------------
(* Claims about handleError and the verbs, checked under SpecCall *)

\* the category the table of the specification gives a discriminator
TableCategory(type) ==
    IF type = Text("StripeCardError") THEN "PaymentError"
    ELSE IF type \in {Text("StripeInvalidRequestError"), Text("StripeInvalidRequest")}
    THEN "BadRequest"
    ELSE IF type \in {Text("StripeAPIError"), Text("StripeConnectionError")}
    THEN "Unavailable"
    ELSE IF type = Text("StripeAuthenticationError") THEN "NotAuthenticated"
    ELSE IF type = Text("StripeRateLimitError") THEN "TooManyRequests"
    ELSE "GeneralError"

\* handleError has been given what the internal method rejected with
HandleErrorCalled ==
    /\ adPc = "done"
    /\ attached = <<"handleError">>
    /\ sdkPromise.state = "rejected"

\* handleError has translated an error of the SDK
HandledError ==
    /\ HandleErrorCalled
    /\ sdkPromise.error \in SdkErrors

\* the result carries the category, and the fallback its fixed message
HasCategory(error, category) ==
    /\ "name" \in DOMAIN error
    /\ error.name = category
    /\ category = "GeneralError" => error.message = UnknownGateway

\* C3 as stated: the category follows the discriminator as in the table, and
\* an unrecognized or a missing discriminator gives the generic fallback.
C3_Original ==
    (HandledError /\ sdkPromise.error.type # Text("")) =>
        HasCategory(callResult.error, TableCategory(sdkPromise.error.type))

\* C3 amended: the category follows the discriminator as in the table and an
\* unrecognized discriminator gives the generic fallback; an error with a
\* missing (or empty) discriminator is not translated: the call is rejected
\* with the error itself.
C3_HandleError ==
    HandledError =>
        /\ callResult.state = "rejected"
        /\ IF sdkPromise.error.type \in {Undef, Text("")}
           THEN callResult.error = sdkPromise.error
           ELSE /\ HasCategory(callResult.error, TableCategory(sdkPromise.error.type))
                /\ callResult.error.data = sdkPromise.error

\* a rate-limit error of the SDK came back as too-many-requests
C3_Witness ==
    /\ HandledError
    /\ sdkPromise.error = [type |-> Text("StripeRateLimitError")]
    /\ callResult.state = "rejected"
    /\ callResult.error.name = "TooManyRequests"

\* a failure of the SDK has come back from a verb of a service
SdkFailed ==
    /\ adPc = "done"
    /\ sdkPromise.state = "rejected"
    /\ sdkPromise.error \in SdkErrors

\* the caller holds a rejected promise with the failure of the SDK
\* translated, no throw came from a call that reached the SDK, and a
\* fulfilment of the SDK passes through
ReachesCallerRejected ==
    /\ SdkFailed =>
          /\ callResult.state = "rejected"
          /\ (attached # <<>> /\ Truthy(sdkPromise.error.type)) =>
                /\ HasCategory(callResult.error, TableCategory(sdkPromise.error.type))
                /\ callResult.error.data = sdkPromise.error
    /\ callResult.state = "thrown" => invoked = "none" /\ sdkPromise.state = "pending"
    /\ (adPc = "done" /\ sdkPromise.state = "fulfilled") => callResult = sdkPromise

ForwardedTo(method) == invoked = method /\ callResult.state # "thrown"
\* the call failed with not-implemented
FailedNotImplemented ==
    /\ invoked = "none"
    /\ callResult.state \in {"thrown", "rejected"}
    /\ callResult.error.name = "NotImplemented"

\* what the claim wants of a call of the verb
DispatchedAsClaimed(verb, defined) ==
    IF verb = "patch"
    THEN IF "_patch" \in defined THEN ForwardedTo("_patch")
         ELSE IF "_update" \in defined THEN ForwardedTo("_update")
         ELSE FailedNotImplemented
    ELSE IF Internal(verb) \in defined THEN ForwardedTo(Internal(verb))
         ELSE FailedNotImplemented

\* C7: a `$` dispatcher forwards the call to the internal method of its verb
\* when the service defines it and fails with not-implemented when not;
\* patch goes to _patch, else to _update, and fails with not-implemented
\* only when both are absent; so does the public patch of BaseService.
C7_Dispatch ==
    (/\ service.kind = "adapter"
     /\ adPc # "start"
     /\ (IsDollar(entry) \/ entry = "patch")) =>
        DispatchedAsClaimed(VerbOf(entry), service.defined)

\* the part of C7 about the `$` dispatchers alone
C7_DollarDispatch ==
    (service.kind = "adapter" /\ adPc # "start" /\ IsDollar(entry)) =>
        DispatchedAsClaimed(VerbOf(entry), service.defined)

----------------------------------------------------------------------------
(* Claims about construction, checked under SpecCtor *)

\* the configuration provides a key or a client
Configured ==
    \/ Truthy(Option(ctorOptions, "secretKey"))
    \/ Truthy(Option(ctorOptions, "stripe"))

\* what the claim wants of a construction
ConstructedAsClaimed ==
    IF Configured
    THEN /\ instance.state = "constructed"
         /\ ctorOptions.paginate # Absent => instance.paginate = ctorOptions.paginate
         /\ instance.paginate = Policy(Num(10), Num(100)) =>
               ctorOptions.paginate \in {Absent, Policy(Num(10), Num(100))}
    ELSE /\ instance.state = "thrown"
         /\ instance.error.name = "Error"

\* C8: the construction of any service succeeds with a key or with a client
\* and throws a configuration error without either; pagination defaults and
\* maximums of the configuration are kept by the instance, 10 and 100 being
\* used only when none are given.
C8_Construction == instance # Pending => ConstructedAsClaimed

\* the part of C8 about the adapter classes alone
C8_AdapterConstruction ==
    (instance # Pending /\ ctorClass \in {"StripeAdapter", "BaseService"}) =>
        ConstructedAsClaimed

----------------------------------------------------------------------------
(* Claims about the orders service, checked under SpecOrders *)

CallsOf(method) == SelectSeq(sdkCalls, LAMBDA c : c.method = method)
PayFlagSet == Truthy(Prop(ordCall.data.e, PayKey))
\* the data without its pay entry
FlagStripped == Obj(SelectSeq(ordCall.data.e, LAMBDA e : e.k # PayKey))

\* C9 as stated: a payload whose pay flag is set triggers exactly one pay
\* call for the same id, with the payload less the flag, besides exactly one
\* update call; a payload without the flag triggers the update call alone.
C9_Original ==
    ordPc # "start" =>
        /\ Len(CallsOf("stripe.orders.update")) = 1
        /\ CallsOf("stripe.orders.pay") =
              IF PayFlagSet
              THEN <<SdkCall("stripe.orders.pay", ordCall.id, FlagStripped)>>
              ELSE <<>>

\* C9 amended: a patch whose payload has the pay flag set triggers exactly
\* one pay call for the same id, with the payload less the flag, and then
\* exactly one update call with the payload as given; a patch without the
\* flag, and every update whatever the flag, triggers the update call alone.
C9_OrdersPay ==
    ordPc # "start" =>
        /\ CallsOf("stripe.orders.update") =
              <<SdkCall("stripe.orders.update", ordCall.id, ordCall.data)>>
        /\ CallsOf("stripe.orders.pay") =
              IF PayFlagSet /\ ordCall.verb = "patch"
              THEN <<SdkCall("stripe.orders.pay", ordCall.id, FlagStripped)>>
              ELSE <<>>
        /\ Len(sdkCalls) = Len(CallsOf("stripe.orders.pay")) + 1
        /\ sdkCalls[Len(sdkCalls)].method = "stripe.orders.update"

\* a patch with { pay: true, amount: 500 } issued pay with { amount: 500 }
C9_Witness ==
    /\ ordPc # "start"
    /\ ordCall.verb = "patch"
    /\ ordCall.data = Obj(<<Entry(PayKey, Bool(TRUE)), Entry(<<"amount">>, Num(500))>>)
    /\ sdkCalls = <<SdkCall("stripe.orders.pay", ordCall.id,
                             Obj(<<Entry(<<"amount">>, Num(500))>>)),
                     SdkCall("stripe.orders.update", ordCall.id, ordCall.data)>>

\* C10: in a patch with the pay flag set the update call is issued without
\* waiting for the pay call, and however the two complete, the caller gets
\* the outcome of the update alone: fulfilled exactly when the update
\* fulfilled, and rejected with the update's own failure otherwise.
C10_UpdateAlone ==
    (ordCall.verb = "patch" /\ PayFlagSet) =>
        /\ payPromise # NoPromise => updatePromise # NoPromise
        /\ ordResult.state \in {"fulfilled", "rejected"} =>
              /\ updatePromise.state \in {"fulfilled", "rejected"}
              /\ ordResult.state = updatePromise.state
              /\ ordResult.state = "fulfilled" => ordResult = updatePromise
              /\ ordResult.state = "rejected" =>
                    ordResult.error.data = updatePromise.error

\* the pay call failed, the update succeeded, and the patch succeeded
C10_Witness ==
    /\ ordCall.verb = "patch" /\ PayFlagSet
    /\ payPromise.state = "rejected"
    /\ updatePromise.state = "fulfilled"
    /\ ordResult.state = "fulfilled"

\* both calls are in flight at once: the update did not wait for the pay call
C10_WitnessInFlight ==
    /\ ordCall.verb = "patch" /\ PayFlagSet
    /\ payPromise = PendingPromise
    /\ updatePromise = PendingPromise

====
